---- MODULE Spec2Model ----
(***************************************************************************)
(* Parameter generation of bucky: buckyParams (bucky/model/parameters.py)  *)
(* and its older duplicate seir_params (bucky/parameters.py).              *)
(*                                                                         *)
(* Numbers are exact rationals <<n, d>> in lowest terms with d > 0.  The   *)
(* numpy results of a division by zero are kept as values with d = 0:      *)
(* <<1, 0>> is +inf, <<-1, 0>> is -inf and <<0, 0>> is nan (the sign of a  *)
(* zero is not tracked).  Arrays are sequences of rationals.               *)
(***************************************************************************)
EXTENDS Integers, Sequences, FiniteSets, TLC

\* how many parameter sets the caller holds at a time
MaxSets == 2

\* the iteration count of a generate_params call is kept up to MaxIter
MaxIter == 2

\* ------------------------------------------------------------------ numbers

Abs(x) == IF x < 0 THEN -x ELSE x

Sgn(x) == IF x < 0 THEN -1 ELSE IF x = 0 THEN 0 ELSE 1

RECURSIVE GCD(_, _)
GCD(a, b) == IF b = 0 THEN a ELSE GCD(b, a % b)

R(n, d) ==
    IF d = 0 THEN <<Sgn(n), 0>>
    ELSE LET g == GCD(Abs(n), Abs(d))
             s == Sgn(d)
         IN  <<(s * n) \div g, (s * d) \div g>>

NaN == <<0, 0>>
PInf == <<1, 0>>
NInf == <<-1, 0>>

IsFin(a) == a[2] # 0
IsNaN(a) == a = NaN

RMul(a, b) ==
    IF ~IsFin(a) \/ ~IsFin(b) THEN <<Sgn(a[1]) * Sgn(b[1]), 0>>
    ELSE IF a[1] = 0 \/ b[1] = 0 THEN <<0, 1>>
    ELSE LET g1 == GCD(Abs(a[1]), b[2])
             g2 == GCD(Abs(b[1]), a[2])
         IN  <<(a[1] \div g1) * (b[1] \div g2), (a[2] \div g2) * (b[2] \div g1)>>

RInv(a) ==
    IF a[1] > 0 THEN <<a[2], a[1]>>
    ELSE IF a[1] < 0 THEN <<-a[2], -a[1]>>
    ELSE IF a[2] = 0 THEN NaN ELSE PInf

RDiv(a, b) ==
    IF IsFin(a) /\ a[1] = 0 /\ IsFin(b) /\ b[1] = 0 THEN NaN
    ELSE IF IsFin(b) /\ b[1] = 0 THEN <<Sgn(a[1]), 0>>
    ELSE RMul(a, RInv(b))

RNeg(a) == <<-a[1], a[2]>>

RAdd(a, b) ==
    IF IsNaN(a) \/ IsNaN(b) THEN NaN
    ELSE IF ~IsFin(a) /\ ~IsFin(b) THEN (IF a = b THEN a ELSE NaN)
    ELSE IF ~IsFin(a) THEN a
    ELSE IF ~IsFin(b) THEN b
    ELSE LET g == GCD(a[2], b[2])
         IN  R(a[1] * (b[2] \div g) + b[1] * (a[2] \div g), (a[2] \div g) * b[2])

RSub(a, b) == RAdd(a, RNeg(b))

\* a < b as numpy compares: every comparison with nan is False
RLt(a, b) ==
    IF IsNaN(a) \/ IsNaN(b) THEN FALSE
    ELSE IF ~IsFin(a) \/ ~IsFin(b)
         THEN (IF IsFin(a) THEN 0 ELSE a[1]) < (IF IsFin(b) THEN 0 ELSE b[1])
    ELSE a[1] * b[2] < b[1] * a[2]

RGt(a, b) == RLt(b, a)

RECURSIVE RPowNat(_, _)
RPowNat(a, k) == IF k = 0 THEN <<1, 1>> ELSE RMul(a, RPowNat(a, k - 1))

\* a ** k for a Python int k
RPow(a, k) == IF k >= 0 THEN RPowNat(a, k) ELSE RInv(RPowNat(a, -k))

RInt(n) == <<n, 1>>

\* ------------------------------------------------------------------ arrays
\* A numpy array is a sequence of numbers; a Python scalar is used as an
\* array of one element, which is how numpy broadcasts it.

Arr(r) == <<r>>

BroadcastLen(a, b) == IF Len(a) >= Len(b) THEN Len(a) ELSE Len(b)

At(a, i) == IF Len(a) = 1 THEN a[1] ELSE a[i]

VAdd(a, b) == [i \in 1..BroadcastLen(a, b) |-> RAdd(At(a, i), At(b, i))]
VSub(a, b) == [i \in 1..BroadcastLen(a, b) |-> RSub(At(a, i), At(b, i))]
VMul(a, b) == [i \in 1..BroadcastLen(a, b) |-> RMul(At(a, i), At(b, i))]
VDiv(a, b) == [i \in 1..BroadcastLen(a, b) |-> RDiv(At(a, i), At(b, i))]
VPow(a, k) == [i \in 1..Len(a) |-> RPow(a[i], k)]

One == Arr(RInt(1))
Two == Arr(RInt(2))

\* ------------------------------------------------------------------ derivations

\* num = 2.0 * n * f / (n + 1.0) * Tg - Ts ; den = 2.0 * n * f / (n + 1.0) - 1.0
calc_Te(Tg, Ts, n, f) ==
    LET a   == VDiv(VMul(VMul(Two, Arr(RInt(n))), f), Arr(RInt(n + 1)))
        num == VSub(VMul(a, Tg), Ts)
        den == VSub(a, One)
    IN  VDiv(num, den)

calc_Reff(m, n, Tg, Te, r) ==
    LET k   == VDiv(VMul(VMul(Two, Arr(RInt(n))), r), Arr(RInt(n + 1)))
        num == VMul(VMul(k, VSub(Tg, Te)),
                    VPow(VAdd(One, VDiv(VMul(r, Te), Arr(RInt(m)))), m))
        h   == VMul(VDiv(VMul(Two, r), Arr(RInt(n + 1))), VSub(Tg, Te))
        den == VSub(One, VPow(VAdd(One, h), -n))
    IN  VDiv(num, den)

calc_Ti(Te, Tg, n) ==
    VDiv(VMul(VMul(VSub(Tg, Te), Two), Arr(RInt(n))), Arr(RInt(n + 1)))

\* xp.log(2.0) = 0.693147..., kept to one decimal
Ln2 == R(7, 10)

\* xp.sqrt(1.0 / 0.05) = 4.472135..., kept to the nearest half
Std95 == R(9, 2)

\* (upper + lower) / 2.0, (upper - lower) / std95 / 2.0
CI_to_std(CI) ==
    <<RDiv(RAdd(CI[2], CI[1]), RInt(2)),
      RDiv(RDiv(RSub(CI[2], CI[1]), Std95), RInt(2))>>


RLe(a, b) == RLt(a, b) \/ (IsFin(a) /\ a = b)

RMax(a, b) == IF RLt(a, b) THEN b ELSE a
RMin(a, b) == IF RLt(b, a) THEN b ELSE a

\* ------------------------------------------------------------------ age bins

Midpoints(bins) == [i \in 1..Len(bins) |-> R(bins[i][1] + bins[i][2], 2)]

\* numpy.interp(x, xp, fp) for increasing xp: linear inside, clamped outside
interp(x, xs, fp) ==
    LET n == Len(xs)
    IN  IF RLe(x, xs[1]) THEN fp[1]
        ELSE IF RLe(xs[n], x) THEN fp[n]
        ELSE LET i == CHOOSE j \in 1..(n - 1) : RLe(xs[j], x) /\ RLt(x, xs[j + 1])
             IN  RAdd(fp[i],
                      RDiv(RMul(RSub(x, xs[i]), RSub(fp[i + 1], fp[i])),
                           RSub(xs[i + 1], xs[i])))

age_interp(x_bins_new, x_bins, y) ==
    LET x_mean_new == Midpoints(x_bins_new)
        x_mean     == Midpoints(x_bins)
    IN  [i \in 1..Len(x_mean_new) |-> interp(x_mean_new[i], x_mean, y)]

\* ------------------------------------------------------------------ samplers

\* a_min=1e-6 of every truncnorm call
A_MIN == R(1, 1000000)

\* truncnorm(loc, scale, size, a_min): one value per deviate in zs, each
\* loc + z * scale cut off at a_min; a zero scale gives loc itself.
truncnorm(loc, scale, zs) ==
    [i \in 1..Len(zs) |-> RMax(RAdd(loc, RMul(RInt(zs[i]), scale)), A_MIN)]

\* approx_mPERT_sample(mu, gamma=gamma): a draw around mu, tighter for a
\* larger gamma, whatever var is.
approx_mPERT_sample(mu, gamma, z) ==
    [i \in 1..Len(mu) |-> RAdd(mu[i], RDiv(RMul(RInt(z), mu[i]), RAdd(gamma, RInt(2))))]

xp_clip(x, lo, hi) == [i \in 1..Len(x) |-> RMin(RMax(x[i], lo), hi)]


\* ------------------------------------------------------------------ par files
\* The object under test is a buckyParams or a seir_params built from a par
\* file.  cfg.impl names the class and cfg.variant the par file.

Impls == {"bucky", "seir"}
Variants == {"plain", "pert", "literal", "invalid"}

\* the key of the constants record: base_params["consts"] for buckyParams,
\* base_params["model_struct"] for seir_params
ConstKey(impl) == IF impl = "bucky" THEN "consts" ELSE "model_struct"

CanonicalBins == <<<<0, 20>>, <<20, 100>>>>
CoarseBins == <<<<0, 40>>, <<40, 100>>>>

\* the keys of the par file, in file order
KeyOrder(cfg) ==
    <<ConstKey(cfg.impl), "Tg", "Ts", "D", "frac_trans_before_sym", "ASYM_FRAC",
      "H_TIME", "I_TO_H_TIME", "CHR">>
    \o (IF cfg.variant = "literal" THEN <<"flag">> ELSE <<>>)

Keys(cfg) == {KeyOrder(cfg)[i] : i \in 1..Len(KeyOrder(cfg))}

\* the nested mapping yaml.load returns
ParFile(cfg) ==
    [k \in Keys(cfg) |->
        CASE k = ConstKey(cfg.impl) ->
                [kind |-> "dict", has |-> {}, En |-> 2, Im |-> 2, age_bins |-> CanonicalBins]
          [] k = "Tg" ->
                [kind |-> "dict", has |-> {"mean", "CI"}, mean |-> Arr(R(7, 1)),
                 CI |-> <<R(6, 1), R(8, 1)>>]
          [] k = "Ts" ->
                [kind |-> "dict", has |-> {"mean"},
                 mean |-> Arr(IF cfg.variant = "invalid" THEN R(1, 1) ELSE R(5, 1))]
          [] k = "D" ->
                [kind |-> "dict", has |-> {"mean"}, mean |-> Arr(R(7, 1))]
          [] k = "frac_trans_before_sym" ->
                [kind |-> "dict", has |-> {"mean"}, mean |-> Arr(R(3, 10))]
          [] k = "ASYM_FRAC" ->
                IF cfg.variant = "pert"
                THEN [kind |-> "dict", has |-> {"mean", "gamma", "CI"}, mean |-> Arr(R(2, 5)),
                      gamma |-> R(4, 1), CI |-> <<R(3, 10), R(1, 2)>>]
                ELSE [kind |-> "dict", has |-> {"mean"}, mean |-> Arr(R(2, 5))]
          [] k = "H_TIME" ->
                [kind |-> "dict", has |-> {"mean", "values", "age_bins"}, mean |-> Arr(R(5, 1)),
                 values |-> <<R(4, 1), R(6, 1)>>, age_bins |-> CanonicalBins]
          [] k = "I_TO_H_TIME" ->
                [kind |-> "dict", has |-> {"mean"}, mean |-> Arr(R(6, 1))]
          [] k = "CHR" ->
                [kind |-> "dict", has |-> {"values", "age_bins", "clip"},
                 values |-> <<R(1, 10), R(2, 5)>>, age_bins |-> CoarseBins,
                 clip |-> <<R(0, 1), R(9, 20)>>]
          [] k = "flag" ->
                [kind |-> "scalar", has |-> {}, num |-> R(1, 1)]]

\* ------------------------------------------------------------------ objects
\* Mutable Python objects (dicts, lists, arrays) live in a heap of cells.  An
\* address is <<owner, key, part>>: owner 0 is the base specification, owner
\* i >= 1 is the i-th parameter set held by the caller.  A name bound to an
\* object is the object's address, so two names with one address are aliases.

ArrCell(v) == [t |-> "arr", v |-> v]
ListCell(v) == [t |-> "list", v |-> v]
DictCell(En, Im, bins) == [t |-> "dict", En |-> En, Im |-> Im, age_bins |-> bins]

SelfAddr(o, k) == <<o, k, "self">>
BinsAddr(o, k) == <<o, k, "age_bins">>
MeanAddr(k) == <<0, k, "mean">>
ValuesAddr(k) == <<0, k, "values">>

\* buckyParams.__init__ re-bins the values of an entry whose age_bins differ
\* from consts.age_bins and makes its age_bins the consts list itself;
\* seir_params.__init__ keeps the par file as loaded.
Rebinned(cfg, k) ==
    /\ cfg.impl = "bucky"
    /\ "values" \in ParFile(cfg)[k].has
    /\ ParFile(cfg)[k].age_bins # ParFile(cfg)[ConstKey(cfg.impl)].age_bins

InitBase(cfg) ==
    LET par == ParFile(cfg)
        ck  == ConstKey(cfg.impl)
    IN  [k \in Keys(cfg) |->
            IF k = ck THEN [kind |-> "dict", has |-> {}, self |-> SelfAddr(0, ck)]
            ELSE IF par[k].kind = "scalar" THEN par[k]
            ELSE [kind |-> "dict", has |-> par[k].has,
                  CI |-> IF "CI" \in par[k].has THEN par[k].CI ELSE <<>>,
                  gamma |-> IF "gamma" \in par[k].has THEN par[k].gamma ELSE NaN,
                  clip |-> IF "clip" \in par[k].has THEN par[k].clip ELSE <<>>,
                  age_bins |-> IF Rebinned(cfg, k) THEN BinsAddr(0, ck) ELSE BinsAddr(0, k)]]

InitAddrs(cfg) ==
    LET par == ParFile(cfg)
        ck  == ConstKey(cfg.impl)
    IN  {SelfAddr(0, ck), BinsAddr(0, ck)}
        \cup {MeanAddr(k) : k \in {x \in Keys(cfg) : "mean" \in par[x].has}}
        \cup {ValuesAddr(k) : k \in {x \in Keys(cfg) : "values" \in par[x].has}}
        \cup {BinsAddr(0, k) : k \in {x \in Keys(cfg) :
                                        "age_bins" \in par[x].has /\ ~Rebinned(cfg, x)}}

InitHeap(cfg) ==
    LET par == ParFile(cfg)
        ck  == ConstKey(cfg.impl)
    IN  [a \in InitAddrs(cfg) |->
            IF a = SelfAddr(0, ck) THEN DictCell(par[ck].En, par[ck].Im, BinsAddr(0, ck))
            ELSE IF a[3] = "age_bins" THEN ListCell(par[a[2]].age_bins)
            ELSE IF a[3] = "mean" THEN ArrCell(par[a[2]].mean)
            ELSE IF Rebinned(cfg, a[2])
                 THEN ArrCell(age_interp(par[ck].age_bins, par[a[2]].age_bins, par[a[2]].values))
                 ELSE ArrCell(par[a[2]].values)]


\* ------------------------------------------------------------------ copying

\* copy.copy(x): a dict is copied, the list it holds is shared
deepcopy_shallow(h, src, dst) == [a |-> dst, h |-> (dst :> h[src]) @@ h]

\* copy.deepcopy(x) into a new object at dst: an array or list is copied, a
\* dict is copied together with the list it holds
deepcopy(h, src, dst) ==
    IF h[src].t = "dict"
    THEN LET bins == BinsAddr(dst[1], dst[2])
         IN  [a |-> dst,
              h |-> (dst :> [h[src] EXCEPT !.age_bins = bins])
                    @@ (bins :> h[h[src].age_bins]) @@ h]
    ELSE [a |-> dst, h |-> (dst :> h[src]) @@ h]

\* xp.asarray(x): the array itself, no copy
xp_asarray(h, src, dst) == [a |-> src, h |-> h]

\* xp.array(x): a new array with a copy of the data
xp_array(h, src, dst) == [a |-> dst, h |-> (dst :> ArrCell(h[src].v)) @@ h]

\* a freshly computed array bound to a name
Store(h, dst, v) == (dst :> ArrCell(v)) @@ h

\* x *= f and x /= f on an array: the object at a is changed in place
imul(h, a, f) == [h EXCEPT ![a].v = VMul(@, f)]
idiv(h, a, f) == [h EXCEPT ![a].v = VDiv(@, f)]

\* ------------------------------------------------------------------ reroll

\* the deviate the sampler draws for element i of entry p: one deviate of a
\* reroll is dv.z, every other one is 0
Z(dv, p, i) == IF dv.slot = <<p, i>> THEN dv.z ELSE 0

Zs(dv, p, n) == [i \in 1..n |-> Z(dv, p, i)]

\* the state of one reroll_params call: the heap, params (key -> address),
\* the branch each entry took, and the exception raised ("" for none)
RerollStart(h) == [h |-> h, params |-> <<>>, branch |-> <<>>, raised |-> ""]

Bind(st, p, h, a, b) ==
    [st EXCEPT !.h = h, !.params = (p :> a) @@ st.params, !.branch = (p :> b) @@ st.branch]

\* "if var:" replaced by "if True:"
truthy_always(var) == TRUE

\* "if var:" of lines 114 (bucky) and 70 (seir)
truthy(var) == var # R(0, 1)

\* lines 108-136 (bucky) and 68-97 (seir): the branch of entry p
RerollBranch(st, p, base, var, dv, o, impl) ==
    LET e   == base[p]
        tgt == SelfAddr(o, p)
        ck  == ConstKey(impl)
    IN  IF e.kind = "scalar"
        THEN \* "gamma" in 1.0: argument of type 'float' is not iterable
             [st EXCEPT !.raised = "TypeError"]
        ELSE IF impl = "bucky" /\ "gamma" \in e.has
        THEN IF "mean" \notin e.has THEN [st EXCEPT !.raised = "KeyError"]
             ELSE LET c == deepcopy(st.h, MeanAddr(p), tgt)
                  IN  Bind(st, p,
                           Store(st.h, tgt,
                                 approx_mPERT_sample(c.h[c.a].v, e.gamma, Z(dv, p, 1))),
                           tgt, "gamma")
        ELSE IF "mean" \in e.has
        THEN IF "CI" \in e.has
             THEN IF truthy(var)
                  THEN LET ms == CI_to_std(e.CI)
                       IN  Bind(st, p, Store(st.h, tgt, truncnorm(ms[1], ms[2], Zs(dv, p, 1))),
                                tgt, "CI")
                  ELSE LET c == deepcopy(st.h, MeanAddr(p), tgt)
                       IN  Bind(st, p, c.h, c.a, "CI")
             ELSE LET c == deepcopy(st.h, MeanAddr(p), tgt)
                  IN  Bind(st, p, imul(c.h, c.a, truncnorm(R(1, 1), var, Zs(dv, p, 1))),
                           c.a, "mean")
        ELSE IF "values" \in e.has
        THEN LET c  == xp_array(st.h, ValuesAddr(p), tgt)
                 h1 == imul(c.h, c.a, truncnorm(R(1, 1), var, Zs(dv, p, Len(c.h[c.a].v))))
             IN  IF h1[e.age_bins].v # h1[h1[base[ck].self].age_bins].v
                 THEN Bind(st, p,
                           Store(h1, tgt, age_interp(h1[h1[base[ck].self].age_bins].v,
                                                     h1[e.age_bins].v, h1[c.a].v)),
                           tgt, "values")
                 ELSE Bind(st, p, h1, c.a, "values")
        ELSE LET c == deepcopy(st.h, e.self, tgt)
             IN  Bind(st, p, c.h, c.a, "fixed")

\* lines 138-141: clip values
RerollClip(st, p, base, o) ==
    IF st.raised = "" /\ "clip" \in base[p].has
    THEN [st EXCEPT !.h = Store(st.h, SelfAddr(o, p),
                                xp_clip(st.h[st.params[p]].v, base[p].clip[1], base[p].clip[2])),
                    !.params[p] = SelfAddr(o, p)]
    ELSE st

\* the one element of a singleton set
Only(S) == CHOOSE x \in S : TRUE

\* line 106: for p in base_params, until an entry raises
RECURSIVE RerollFrom(_, _, _, _, _, _, _, _)
RerollFrom(i, st, order, base, var, dv, o, impl) ==
    IF i > Len(order) \/ st.raised # "" THEN st
    ELSE Only({RerollFrom(i + 1, s2, order, base, var, dv, o, impl) :
                 s2 \in {RerollClip(s1, order[i], base, o) :
                           s1 \in {RerollBranch(st, order[i], base, var, dv, o, impl)}}})

\* reroll_params(base_params, var): a new params mapping owned by o
reroll_params(h, order, base, var, dv, o, impl) ==
    RerollFrom(1, RerollStart(h), order, base, var, dv, o, impl)


\* ------------------------------------------------------------------ derived

\* the value bound to params[k]
Val(h, params, k) == h[params[k]].v

DerivedKeys == {"Te", "Ti", "R0", "SIGMA", "GAMMA", "BETA", "SYM_FRAC", "THETA", "GAMMA_H"}

\* params[k] = v for every k of a mapping new (key -> array): each name is
\* bound to a new array owned by o
StoreAll(h, params, o, new) ==
    [h      |-> [a \in DOMAIN h \cup {SelfAddr(o, k) : k \in DOMAIN new} |->
                    IF a[1] = o /\ a[3] = "self" /\ a[2] \in DOMAIN new
                    THEN ArrCell(new[a[2]]) ELSE h[a]],
     params |-> [k \in DOMAIN params \cup DOMAIN new |-> 
                    IF k \in DOMAIN new THEN SelfAddr(o, k) ELSE params[k]]]

\* calc_derived_params(params): params extended in place with the derived
\* keys; ck is "consts" (bucky) or "model_struct" (seir)
calc_derived_params(h, params, o, ck) ==
    LET En    == h[params[ck]].En
        Im    == h[params[ck]].Im
        Tg    == Val(h, params, "Tg")
        Te    == calc_Te(Tg, Val(h, params, "Ts"), En, Val(h, params, "frac_trans_before_sym"))
        Ti    == calc_Ti(Te, Tg, En)
        r     == VDiv(Arr(Ln2), Val(h, params, "D"))
        R0    == calc_Reff(Im, En, Tg, Te, r)
        GAMMA == VDiv(One, Ti)
    IN  StoreAll(h, params, o,
                 [k \in DerivedKeys |->
                    CASE k = "Te" -> Te
                      [] k = "Ti" -> Ti
                      [] k = "R0" -> R0
                      [] k = "SIGMA" -> VDiv(One, Te)
                      [] k = "GAMMA" -> GAMMA
                      [] k = "BETA" -> VMul(R0, GAMMA)
                      [] k = "SYM_FRAC" -> VSub(One, Val(h, params, "ASYM_FRAC"))
                      [] k = "THETA" -> VDiv(One, Val(h, params, "H_TIME"))
                      [] k = "GAMMA_H" -> VDiv(One, Val(h, params, "I_TO_H_TIME"))])

\* the truth value of a comparison of one-element arrays
Gt(a, b) == RGt(a[1], b[1])

\* line 99 without "params.Ti > 3.0", as in the older module
bucky_accept_noTi(var, Te, Tg, Ti) == (Gt(Te, One) /\ Gt(Tg, Te)) \/ var = R(0, 1)

\* line 99 without "or var == 0.0"
bucky_accept_strict(var, Te, Tg, Ti) == Gt(Te, One) /\ Gt(Tg, Te) /\ Gt(Ti, Arr(RInt(3)))

\* line 99 without "params.Te > 1.0"
bucky_accept_noTe(var, Te, Tg, Ti) ==
    (Gt(Tg, Te) /\ Gt(Ti, Arr(RInt(3)))) \/ var = R(0, 1)

\* bucky/model/parameters.py line 99
bucky_accept(var, Te, Tg, Ti) ==
    (Gt(Te, One) /\ Gt(Tg, Te) /\ Gt(Ti, Arr(RInt(3)))) \/ var = R(0, 1)

\* line 61 with the "or var == 0.0" of the newer module
seir_accept_bypass(var, Te, Tg, Ti) == (Gt(Te, One) /\ Gt(Tg, Te)) \/ var = R(0, 1)

\* bucky/parameters.py line 61
seir_accept(var, Te, Tg, Ti) == Gt(Te, One) /\ Gt(Tg, Te)

accept(impl, var, Te, Tg, Ti) ==
    IF impl = "bucky" THEN bucky_accept(var, Te, Tg, Ti) ELSE seir_accept(var, Te, Tg, Ti)

\* ------------------------------------------------------------------ rescale

\* the rescaler working on a copy of params and returning the copy
rescale_copy(h, sets, i, D, A_diag) ==
    [h |-> h, sets |-> sets, ret |-> i + MaxSets, raised |-> ""]

\* the rescaler without line 165: BETA is divided, never recomputed
rescale_compound(h, sets, i, D, A_diag) ==
    LET params == sets[i]
        r    == VDiv(Arr(Ln2), D)
        R0   == calc_Reff(h[params["consts"]].Im, h[params["consts"]].En,
                          Val(h, params, "Tg"), Val(h, params, "Te"), r)
        BETA == IF A_diag = <<>> THEN Val(h, params, "BETA")
                ELSE VDiv(Val(h, params, "BETA"), A_diag)
        s2   == StoreAll(h, params, i, ("R0" :> R0) @@ ("BETA" :> BETA))
    IN  [h |-> s2.h, sets |-> [sets EXCEPT ![i] = s2.params], ret |-> i, raised |-> ""]

\* rescale_doubling_rate(D, params, A_diag): R0 and BETA of the set in slot i
\* are rebound, BETA is then divided in place; A_diag is <<>> for None.  The
\* in-place division raises when A_diag does not broadcast into BETA's shape.
rescale_doubling_rate(h, sets, i, D, A_diag) ==
    LET params == sets[i]
        r    == VDiv(Arr(Ln2), D)
        R0   == calc_Reff(h[params["consts"]].Im, h[params["consts"]].En,
                          Val(h, params, "Tg"), Val(h, params, "Te"), r)
        BETA == VMul(R0, Val(h, params, "GAMMA"))
        ok   == A_diag = <<>> \/ Len(A_diag) = 1 \/ Len(A_diag) = Len(BETA)
        s2   == StoreAll(h, params, i, ("R0" :> R0) @@ ("BETA" :> BETA))
    IN  [h      |-> IF A_diag # <<>> /\ ok THEN idiv(s2.h, s2.params["BETA"], A_diag) ELSE s2.h,
         sets   |-> [sets EXCEPT ![i] = s2.params],
         ret    |-> IF ok THEN i ELSE 0,
         raised |-> IF ok THEN "" ELSE "ValueError"]

\* ------------------------------------------------------------------ state

VARIABLES
    cfg,    \* the class under test and its par file
    base,   \* self.base_params: key -> entry
    heap,   \* address -> cell
    sets,   \* caller's slot -> params (key -> address), <<>> for a free slot
    gen,    \* the generate_params call: pc, var, iterations so far
    last,   \* the latest loop iteration: what was drawn and decided
    note,   \* per slot: how the set was made and the latest rescale on it
    drawable \* whether base_params has a draw that meets the validity constraints

vars == <<cfg, base, heap, sets, gen, last, note, drawable>>

Slots == 1..MaxSets

NoneVal == <<>>

\* var=None, var=0.0 and the default var=0.2
VarChoices == {NoneVal, R(0, 1), R(1, 5)}

\* The deviates one reroll may draw: all zero, or one entry's deviate off zero
DevChoices ==
    {[slot |-> <<"Ts", 1>>, z |-> 0],
     [slot |-> <<"Ts", 1>>, z |-> -3],
     [slot |-> <<"Ts", 1>>, z |-> 1],
     [slot |-> <<"Ts", 1>>, z |-> 3],
     [slot |-> <<"Tg", 1>>, z |-> 1],
     [slot |-> <<"ASYM_FRAC", 1>>, z |-> 1],
     [slot |-> <<"CHR", 2>>, z |-> 3]}

ShareDevChoices ==
    {[slot |-> <<"Ts", 1>>, z |-> 0],
     [slot |-> <<"Ts", 1>>, z |-> 1]}

NoLast == [kind |-> "none"]
NoNote == [made |-> "free"]

Free(i) == sets[i] = <<>>

FreeSlot == CHOOSE i \in Slots : Free(i) /\ \A j \in Slots : Free(j) => i <= j

\* the objects of owner o are dropped from the heap
Collect(h, o) == [a \in {x \in DOMAIN h : x[1] # o} |-> h[a]]

Inc(n) == IF n < MaxIter THEN n + 1 ELSE MaxIter

Configs == [impl : Impls, variant : Variants]

\* some draw with var = 0.2 gives a set with Te > 1.0, Tg > Te and Ti > 3.0
HasValidDraw(c) ==
    \E dv \in DevChoices :
      \E rr \in {reroll_params(InitHeap(c), KeyOrder(c), InitBase(c), R(1, 5), dv, 1, c.impl)} :
        /\ rr.raised = ""
        /\ \E dd \in {calc_derived_params(rr.h, rr.params, 1, ConstKey(c.impl))} :
             /\ RGt(Val(dd.h, dd.params, "Te")[1], R(1, 1))
             /\ RGt(Val(dd.h, dd.params, "Tg")[1], Val(dd.h, dd.params, "Te")[1])
             /\ RGt(Val(dd.h, dd.params, "Ti")[1], R(3, 1))

Init ==
    /\ cfg \in Configs
    /\ base = InitBase(cfg)
    /\ heap = InitHeap(cfg)
    /\ sets = [i \in Slots |-> <<>>]
    /\ gen = [pc |-> "idle", arg |-> NoneVal, var |-> R(0, 1), iters |-> 0]
    /\ last = NoLast
    /\ note = [i \in Slots |-> NoNote]
    /\ drawable = HasValidDraw(cfg)

\* generate_params(var) is entered: lines 94-95
CallGenerate(v) ==
    /\ gen.pc # "loop"
    /\ \E i \in Slots : Free(i)
    /\ gen' = [pc |-> "loop", arg |-> v, var |-> IF v = NoneVal THEN R(0, 1) ELSE v,
               iters |-> 0]
    /\ last' = NoLast
    /\ UNCHANGED <<cfg, base, drawable, heap, sets, note>>

\* one pass of the while True loop: lines 97-101 (bucky), 59-62 (seir)
Iterate(dv) ==
    /\ gen.pc = "loop"
    /\ \E rr \in {reroll_params(heap, KeyOrder(cfg), base, gen.var, dv, FreeSlot, cfg.impl)} :
         IF rr.raised # ""
         THEN /\ gen' = [gen EXCEPT !.pc = "raised", !.iters = Inc(@)]
              /\ last' = [kind |-> "raised", exc |-> rr.raised]
              /\ heap' = Collect(rr.h, FreeSlot)
              /\ UNCHANGED <<sets, note>>
         ELSE \E dd \in {calc_derived_params(rr.h, rr.params, FreeSlot, ConstKey(cfg.impl))} :
                LET Te  == Val(dd.h, dd.params, "Te")
                    Tg  == Val(dd.h, dd.params, "Tg")
                    Ti  == Val(dd.h, dd.params, "Ti")
                    acc == accept(cfg.impl, gen.var, Te, Tg, Ti)
                IN  /\ last' = [kind |-> "iter", Te |-> Te, Tg |-> Tg, Ti |-> Ti,
                                accepted |-> acc, branch |-> rr.branch]
                    /\ IF acc
                       THEN /\ gen' = [gen EXCEPT !.pc = "returned", !.iters = Inc(@)]
                            /\ heap' = dd.h
                            /\ sets' = [sets EXCEPT ![FreeSlot] = dd.params]
                            /\ note' = [note EXCEPT ![FreeSlot] = [made |-> "generated",
                                                                   var |-> gen.var,
                                                                   resc |-> <<>>,
                                                                   scribbled |-> FALSE]]
                       ELSE /\ gen' = [gen EXCEPT !.iters = Inc(@)]
                            /\ heap' = Collect(dd.h, FreeSlot)
                            /\ UNCHANGED <<sets, note>>
    /\ UNCHANGED <<cfg, base, drawable>>

\* the caller lets go of a set
Drop(i) ==
    /\ ~Free(i)
    /\ sets' = [sets EXCEPT ![i] = <<>>]
    /\ note' = [note EXCEPT ![i] = NoNote]
    /\ heap' = Collect(heap, i)
    /\ UNCHANGED <<cfg, base, drawable, gen, last>>

Next ==
    \/ \E v \in VarChoices : CallGenerate(v)
    \/ \E dv \in DevChoices : Iterate(dv)
    \/ \E i \in Slots : Drop(i)

Spec == Init /\ [][Next]_vars


\* ------------------------------------------------------------------ callers
\* What the owner of a returned set does with it (buckyParams only).

\* the (D, A_diag) pairs passed to the rescaler: a doubling time per node and
\* the diagonal of the contact matrix; <<>> is A_diag=None
RescaleArgs ==
    {<<Arr(R(14, 1)), NoneVal>>,
     <<Arr(R(14, 1)), Arr(R(2, 1))>>,
     <<<<R(7, 1), R(14, 1)>>, <<R(2, 1), R(4, 1)>>>>,
     <<Arr(R(14, 1)), <<R(2, 1), R(4, 1)>>>>}

Pristine(i) == note[i].made = "generated" => (note[i].resc = <<>> /\ ~note[i].scribbled)

\* the caller works on one of its sets at a time
OnlyTouched(i) == ~Free(i) /\ \A j \in Slots \ {i} : Pristine(j)

\* params = rescale_doubling_rate(D, params, A_diag) on the set in slot i
Rescale(i, D, A) ==
    /\ OnlyTouched(i)
    /\ \E res \in {rescale_doubling_rate(heap, sets, i, D, A)} :
         /\ heap' = res.h
         /\ sets' = res.sets
         /\ note' = [note EXCEPT ![i].resc =
                        [D |-> D, A |-> A, ret |-> res.ret, raised |-> res.raised,
                         twice |-> /\ note[i].resc # <<>>
                                   /\ note[i].resc.D = D
                                   /\ note[i].resc.A = A]]
    /\ UNCHANGED <<cfg, base, drawable, gen, last>>

\* in-place writes into the set in slot i:
\* params["consts"]["age_bins"][0] = [0, 30] and params["CHR"] *= 0
Scribble(i) ==
    /\ OnlyTouched(i)
    /\ heap' = [imul(heap, sets[i]["CHR"], Arr(R(0, 1)))
                  EXCEPT ![heap[sets[i]["consts"]].age_bins].v[1] = <<0, 30>>]
    /\ note' = [note EXCEPT ![i].scribbled = TRUE]
    /\ UNCHANGED <<cfg, base, drawable, sets, gen, last>>

InitShare ==
    /\ Init
    /\ cfg.impl = "bucky"
    /\ cfg.variant = "plain"

NextShare ==
    \/ \E v \in VarChoices : CallGenerate(v)
    \/ \E dv \in ShareDevChoices : Iterate(dv)
    \/ \E i \in Slots : Drop(i)
    \/ \E i \in Slots, a \in RescaleArgs : Rescale(i, a[1], a[2])
    \/ \E i \in Slots : Scribble(i)

SpecShare == InitShare /\ [][NextShare]_vars

\* The Iterate steps that return, on a specification that has an acceptable
\* draw, told by what they do to gen.
ReturningIterate ==
    /\ gen.pc = "loop"
    /\ drawable
    /\ gen' = [gen EXCEPT !.pc = "returned", !.iters = Inc(@)]

\* The interpreter keeps running the loop, and a sampler that can draw an
\* acceptable set at every pass does draw one in the end.
LiveSpec == Spec /\ WF_gen(ReturningIterate)

\* ------------------------------------------------------------------ views

\* the value behind an address, with a dict's list followed
Deref(h, a) ==
    IF h[a].t = "dict"
    THEN [En |-> h[a].En, Im |-> h[a].Im, age_bins |-> h[h[a].age_bins].v]
    ELSE h[a].v

\* the content of the set in slot i, <<>> for a free slot
SetView(i) == IF Free(i) THEN <<>> ELSE [k \in DOMAIN sets[i] |-> Deref(heap, sets[i][k])]

\* the content of every object of the base specification
BaseView == [a \in {x \in DOMAIN heap : x[1] = 0} |-> heap[a]]

Zero == R(0, 1)

IsBucky == cfg.impl = "bucky"

\* the validity constraints Te > 1.0, Tg > Te, Ti > 3.0 on one-element arrays
ValidTe(Te) == RGt(Te[1], R(1, 1))
ValidTg(Tg, Te) == RGt(Tg[1], Te[1])
ValidTi(Ti) == RGt(Ti[1], R(3, 1))
AllValid(Te, Tg, Ti) == ValidTe(Te) /\ ValidTg(Tg, Te) /\ ValidTi(Ti)

\* ------------------------------------------------------------------ C1

\* C1: a set that buckyParams.generate_params returned for a var other than
\* 0 has Te > 1.0, Tg > Te and Ti > 3.0.
C1_ReturnedSetIsValid ==
    \A i \in Slots :
        (IsBucky /\ ~Free(i) /\ note[i].var # Zero)
            => AllValid(SetView(i)["Te"], SetView(i)["Tg"], SetView(i)["Ti"])

\* a set returned with var = 0.2 after a draw was rejected
C1_Witness ==
    /\ IsBucky /\ gen.pc = "returned" /\ gen.var # Zero /\ gen.iters >= 2
    /\ \E i \in Slots : ~Free(i) /\ note[i].var # Zero

\* ------------------------------------------------------------------ C2

\* C2: with var == 0.0 or var == None buckyParams.generate_params runs the
\* loop body once: no draw is rejected and it has returned after exactly one
\* iteration, valid or not.
C2_ZeroVarReturnsFirstDraw ==
    (IsBucky /\ gen.var = Zero /\ gen.pc \in {"loop", "returned"})
        => /\ last.kind = "iter" => last.accepted
           /\ gen.pc = "loop" => gen.iters = 0 /\ last.kind = "none"
           /\ gen.pc = "returned" => gen.iters = 1 /\ last.kind = "iter"

\* var=None has returned a set that fails the validity constraints
C2_Witness ==
    /\ IsBucky /\ gen.pc = "returned" /\ gen.arg = NoneVal /\ gen.var = Zero
    /\ last.kind = "iter" /\ last.accepted
    /\ ~AllValid(last.Te, last.Tg, last.Ti)

\* ------------------------------------------------------------------ C3

\* C3: whatever generate_params calls were made and whatever they drew,
\* accepted or rejected, every object of base_params holds what it held
\* after construction.
C3_BaseUnchanged == BaseView = InitHeap(cfg) /\ base = InitBase(cfg)

\* every slot holds a set, one of them drawn with var = 0.2 off the means,
\* and the latest call rejected a draw first
C3_Witness ==
    /\ \A i \in Slots : ~Free(i)
    /\ \E i \in Slots : note[i].var # Zero /\ SetView(i)["CHR"] # InitHeap(cfg)[ValuesAddr("CHR")].v
    /\ gen.pc = "returned" /\ gen.iters >= 2

\* ------------------------------------------------------------------ C4

\* C4: no step changes the content of two sets, and no step changes the base
\* specification: an in-place change of one returned set is seen by no
\* other set.
C4_NoSharedState ==
    [][/\ BaseView' = BaseView
       /\ \A i \in Slots : \A j \in Slots \ {i} :
            SetView(i)' # SetView(i) => SetView(j)' = SetView(j)]_vars

\* two sets are held, one rescaled and scribbled on, the other as returned
C4_Witness ==
    \E i \in Slots : \E j \in Slots \ {i} :
        /\ ~Free(i) /\ ~Free(j)
        /\ note[i].scribbled /\ note[i].resc # <<>>
        /\ Pristine(j)
        /\ SetView(i) # SetView(j)

\* ------------------------------------------------------------------ C5

\* C5: after rescale_doubling_rate(D, params, A_diag) returned, it returned
\* the set it was given, the set's R0 is calc_Reff(consts.Im, consts.En, Tg,
\* Te, ln(2)/D), and its BETA is R0 * GAMMA, divided elementwise by A_diag
\* when A_diag is given (so twice BETA is R0 * GAMMA for A_diag = [2.0]).
C5_RescaleResult ==
    \A i \in Slots :
        (~Free(i) /\ note[i].resc # <<>> /\ note[i].resc.raised = "")
            => LET v == SetView(i)
                   A == note[i].resc.A
                   r == VDiv(Arr(Ln2), note[i].resc.D)
               IN  /\ note[i].resc.ret = i
                   /\ v["R0"] = calc_Reff(v["consts"].Im, v["consts"].En, v["Tg"], v["Te"], r)
                   /\ A = NoneVal => v["BETA"] = VMul(v["R0"], v["GAMMA"])
                   /\ A # NoneVal => v["BETA"] = VDiv(VMul(v["R0"], v["GAMMA"]), A)
                   /\ A = Arr(R(2, 1)) => VMul(v["BETA"], Two) = VMul(v["R0"], v["GAMMA"])

\* a set rescaled with a doubling time and an A_diag entry per node
C5_Witness ==
    \E i \in Slots :
        /\ ~Free(i) /\ note[i].resc # <<>> /\ note[i].resc.raised = ""
        /\ Len(note[i].resc.A) = 2 /\ Len(SetView(i)["BETA"]) = 2


\* ------------------------------------------------------------------ C6

\* the branch the priority order gamma > mean with CI > mean > values >
\* pass-through gives an entry
PriorityBranch(e) ==
    IF e.kind = "scalar" THEN "fixed"
    ELSE IF "gamma" \in e.has THEN "gamma"
    ELSE IF "mean" \in e.has /\ "CI" \in e.has THEN "CI"
    ELSE IF "mean" \in e.has THEN "mean"
    ELSE IF "values" \in e.has THEN "values"
    ELSE "fixed"

\* C6: every buckyParams.reroll_params call handles every entry of the
\* specification, a scalar literal included, by the one branch the priority
\* order gives it, and so yields one output key per specification key.
C6_EveryEntryHandled ==
    (IsBucky /\ last.kind # "none")
        => /\ last.kind = "iter"
           /\ DOMAIN last.branch = Keys(cfg)
           /\ \A k \in Keys(cfg) : last.branch[k] = PriorityBranch(base[k])

\* ------------------------------------------------------------------ C7

\* some draw of the sampler gives a set with Te > 1.0, Tg > Te and Ti > 3.0
CanDrawValid == drawable

InLoopNonZero == IsBucky /\ gen.pc = "loop" /\ gen.var # Zero

\* C7: with var != 0 the loop of buckyParams.generate_params never returns
\* while no draw can be valid, goes on to another reroll after every rejected
\* draw however many there were, and returns in the end when the sampler can
\* draw a valid set.
C7_UnboundedRejectionLoop ==
    /\ [][(InLoopNonZero /\ ~CanDrawValid) => gen'.pc # "returned"]_vars
    /\ [][(InLoopNonZero /\ last'.kind = "iter" /\ ~last'.accepted) => gen'.pc = "loop"]_vars
    /\ ((InLoopNonZero /\ CanDrawValid) ~> (gen.pc = "returned"))

\* the loop is still running after as many rejections as are counted, on a
\* specification no draw of which is valid
C7_Witness ==
    /\ InLoopNonZero /\ ~CanDrawValid
    /\ gen.iters = MaxIter /\ last.kind = "iter" /\ ~last.accepted

\* ------------------------------------------------------------------ C8

\* buckyParams' acceptance test with the Ti > 3.0 conjunct removed
AcceptWithoutTi(var, Te, Tg) == (ValidTe(Te) /\ ValidTg(Tg, Te)) \/ var = Zero

IsSeirIter == cfg.impl = "seir" /\ last.kind = "iter"

\* C8 as claimed: seir_params accepts a draw exactly when buckyParams without
\* the Ti > 3.0 conjunct would, for every var.
C8_Original == IsSeirIter => (last.accepted <=> AcceptWithoutTi(gen.var, last.Te, last.Tg))

\* C8: for var != 0 seir_params accepts a draw exactly when buckyParams
\* without the Ti > 3.0 conjunct would; for var == 0 seir_params still
\* requires Te > 1.0 and Tg > Te, where buckyParams accepts every draw.
C8_DifferByTiAndZeroVar ==
    IsSeirIter =>
        /\ gen.var # Zero => (last.accepted <=> AcceptWithoutTi(gen.var, last.Te, last.Tg))
        /\ gen.var = Zero => (last.accepted <=> (ValidTe(last.Te) /\ ValidTg(last.Tg, last.Te)))
        /\ bucky_accept(gen.var, last.Te, last.Tg, last.Ti)
             <=> ((last.accepted /\ ValidTi(last.Ti)) \/ gen.var = Zero)

\* seir_params accepted a draw with Ti <= 3.0 that buckyParams rejects
C8_Witness ==
    /\ IsSeirIter /\ gen.var # Zero /\ last.accepted /\ ~ValidTi(last.Ti)
    /\ ~bucky_accept(gen.var, last.Te, last.Tg, last.Ti)

\* ------------------------------------------------------------------ C9

BothZeroVar(i, j) ==
    /\ IsBucky /\ ~Free(i) /\ ~Free(j)
    /\ note[i].var = Zero /\ note[j].var = Zero

\* C9 as claimed: any two sets generated with var == 0.0 are equal, whatever
\* entries the specification has.
C9_Original == \A i \in Slots : \A j \in Slots : BothZeroVar(i, j) => SetView(i) = SetView(j)

NoGammaEntry == \A k \in Keys(cfg) : "gamma" \notin base[k].has

\* C9: any two sets generated with var == 0.0 from a specification without a
\* gamma (PERT) entry are equal.
C9_ZeroVarDeterministic ==
    \A i \in Slots : \A j \in Slots :
        (BothZeroVar(i, j) /\ NoGammaEntry) => SetView(i) = SetView(j)

\* two sets generated with var == 0.0 are held, from a specification with
\* mean+CI, mean-only, values and constant entries
C9_Witness ==
    /\ NoGammaEntry
    /\ \E i \in Slots : \E j \in Slots \ {i} : BothZeroVar(i, j)
    /\ {PriorityBranch(base[k]) : k \in Keys(cfg)} = {"CI", "mean", "values", "fixed"}

\* ------------------------------------------------------------------ C10

Held(i) == ~Free(i) /\ note[i].made = "generated" /\ note[i].resc # <<>>

\* C10: a step that leaves a rescaled set rescaled changes none of its keys
\* but R0 and BETA, and rescaling again with the same D and A_diag changes
\* nothing at all.
C10_RescaleIdempotent ==
    [][\A i \in Slots :
         (Held(i) /\ Held(i)' /\ note'[i].scribbled = note[i].scribbled)
            => /\ DOMAIN sets'[i] = DOMAIN sets[i]
               /\ \A k \in DOMAIN sets[i] \ {"R0", "BETA"} : SetView(i)'[k] = SetView(i)[k]
               /\ (note'[i].resc.D = note[i].resc.D /\ note'[i].resc.A = note[i].resc.A)
                     => SetView(i)' = SetView(i)]_vars

\* a set rescaled twice in a row with the same D and the same A_diag
C10_Witness ==
    \E i \in Slots :
        /\ Held(i) /\ note[i].resc.twice /\ note[i].resc.raised = ""
        /\ note[i].resc.A # NoneVal


====
